---- MODULE Spec2Model ----
(***************************************************************************)
(* Model of the Heidenhain TNC355 post processor: the line builder and     *)
(* modal feed (emit_tnc.py), the 3D, contour and drill emitters            *)
(* (ops_3d.py, ops_contour.py, ops_drill.py) and export (tnc355_post.py).  *)
(*                                                                         *)
(* Numbers are fixed point: the integer v stands for v/1000 (mm, mm/min,   *)
(* seconds), so "{f:.3f}" prints exactly the digits of v.  A Python value  *)
(* is a record [t, n, s]: None, a number or a string.  An output line is a *)
(* record [h, ws]: its head text and the sequence of its words; a word is  *)
(* a record [w, s, n]: letter, sign text and digits.                       *)
(***************************************************************************)
EXTENDS Integers, Sequences, FiniteSets, TLC

VARIABLES
    out,               \* the output line list of the running call
    state,             \* state.State: tool_active, x, y, z (+ X, Y, Z of ops_drill)
    FEED_MODAL,        \* emit_tnc._FEED_MODAL
    TOOL_INITIALIZED,  \* emit_tnc._TOOL_INITIALIZED
    job,               \* the job: tool table and operations
    pc,                \* position of the running call
    opi,               \* export: index of the operation being processed
    ci,                \* emitter: index of the next command (1-based)
    cmds,              \* emitter: the command list being emitted
    opArg,             \* emit_contour_simple: the op argument (metadata)
    feeds,             \* emit_contour_simple: feed_xy, feed_z arguments
    cl,                \* emit_contour_simple: locals
    dg,                \* _emit_literal_with_drill_grouping: the drill group
    ret                \* the program texts returned by export so far

vars == <<out, state, FEED_MODAL, TOOL_INITIALIZED, job, pc, opi, ci, cmds,
          opArg, feeds, cl, dg, ret>>

----------------------------------------------------------------------------
(* Python values *)

None == [t |-> "none", n |-> 0, s |-> ""]
Num(v) == [t |-> "num", n |-> v, s |-> ""]
Str(x) == [t |-> "str", n |-> 0, s |-> x]
Bool(b) == [t |-> "bool", n |-> IF b THEN 1 ELSE 0, s |-> ""]

IsNum(o) == o.t = "num"

Abs(v) == IF v < 0 THEN -v ELSE v

(* round(): nearest integer of num/den (den > 0), ties to the even one *)
PyRound(num, den) ==
    LET a == Abs(num)
        q == a \div den
        r == a % den
        m == IF 2 * r > den THEN q + 1
             ELSE IF 2 * r < den THEN q
             ELSE IF q % 2 = 0 THEN q ELSE q + 1
    IN  IF num < 0 THEN -m ELSE m

----------------------------------------------------------------------------
(* Words and lines *)

RAPID_FEED == 9999

TOOLCHANGE_Z == 150000

NoWord == [w |-> "", s |-> "", n |-> 0]
Word(w) == [w |-> w, s |-> "", n |-> 0]
Line(h, ws) == [h |-> h, ws |-> ws]

(* _fmt_coord: prefix, explicit sign, three decimals *)
fmt_coord(prefix, val) ==
    IF IsNum(val)
    THEN [w |-> prefix, s |-> IF val.n >= 0 THEN "+" ELSE "-", n |-> Abs(val.n)]
    ELSE NoWord

(* _fmt_feed_num: int(round(float(v))) or None *)
fmt_feed_num(v) == IF IsNum(v) THEN Num(PyRound(v.n, 1000)) ELSE None

FMAX == Str("FMAX")

(* L_parts with the rapid feed word suppressed modally *)
L_parts_modal_rapid(x, y, z, f, korrektur, fm) ==
    (IF x # None THEN <<fmt_coord("X", x)>> ELSE <<>>)
    \o (IF y # None THEN <<fmt_coord("Y", y)>> ELSE <<>>)
    \o (IF z # None THEN <<fmt_coord("Z", z)>> ELSE <<>>)
    \o (IF korrektur # "" THEN <<Word(korrektur)>> ELSE <<>>)
    \o (IF f = None THEN <<>>
        ELSE IF f = FMAX
        THEN (IF fm # Num(RAPID_FEED)
              THEN <<[w |-> "F", s |-> "", n |-> RAPID_FEED]>> ELSE <<>>)
        ELSE IF fmt_feed_num(f) # None /\ fmt_feed_num(f) # fm
             THEN <<[w |-> "F", s |-> "", n |-> fmt_feed_num(f).n]>>
             ELSE <<>>)

(* the words of _L's parts list after "L" *)
L_parts(x, y, z, f, korrektur, fm) ==
    (IF x # None THEN <<fmt_coord("X", x)>> ELSE <<>>)
    \o (IF y # None THEN <<fmt_coord("Y", y)>> ELSE <<>>)
    \o (IF z # None THEN <<fmt_coord("Z", z)>> ELSE <<>>)
    \o (IF korrektur # "" THEN <<Word(korrektur)>> ELSE <<>>)
    \o (IF f = None THEN <<>>
        ELSE IF f = FMAX THEN <<[w |-> "F", s |-> "", n |-> RAPID_FEED]>>
        ELSE IF fmt_feed_num(f) # None /\ fmt_feed_num(f) # fm
             THEN <<[w |-> "F", s |-> "", n |-> fmt_feed_num(f).n]>>
             ELSE <<>>)

(* _L without the update of _FEED_MODAL *)
L_keeps_modal(x, y, z, f, korrektur, fm) ==
    [line |-> Line("L", L_parts(x, y, z, f, korrektur, fm)), fm |-> fm]

(* _L: the line, and _FEED_MODAL after the call *)
L_(x, y, z, f, korrektur, fm) ==
    [line |-> Line("L", L_parts(x, y, z, f, korrektur, fm)),
     fm   |-> IF f # None /\ f # FMAX /\ fmt_feed_num(f) # None
                 /\ fmt_feed_num(f) # fm
              THEN fmt_feed_num(f) ELSE fm]

(* float() of the digits _AXIS_RE captured for an axis word *)
ParseWord(wd) == Num(IF wd.s = "-" THEN -wd.n ELSE wd.n)

RECURSIVE LastAxis(_, _)
LastAxis(ws, ax) ==
    IF ws = <<>> THEN None
    ELSE IF ws[Len(ws)].w = ax /\ ws[Len(ws)].s \in {"+", "-", ""}
            /\ ax \in {"X", "Y", "Z"}
         THEN ParseWord(ws[Len(ws)])
         ELSE LastAxis(SubSeq(ws, 1, Len(ws) - 1), ax)

(* _extract_axes_from_line *)
extract_axes_from_line(line) ==
    IF line.h # "L"
    THEN <<None, None, None>>
    ELSE <<LastAxis(line.ws, "X"), LastAxis(line.ws, "Y"), LastAxis(line.ws, "Z")>>

(* _state_coords *)
state_coords(st) == <<st.x, st.y, st.z>>

(* the last values _append_changed compares against *)
last_coords(o, st) ==
    IF st.x = None /\ st.y = None /\ st.z = None /\ o # <<>>
    THEN extract_axes_from_line(o[Len(o)])
    ELSE state_coords(st)

axis_changed(o, x, y, z, st) ==
    LET last == last_coords(o, st)
    IN  \/ (x # None /\ (last[1] = None \/ x.n # last[1].n))
        \/ (y # None /\ (last[2] = None \/ y.n # last[2].n))
        \/ (z # None /\ (last[3] = None \/ z.n # last[3].n))

(* _append_changed on the pair e = [out, fm] *)
append_changed(e, x, y, z, f, korrektur, st) ==
    IF ~axis_changed(e.out, x, y, z, st)
    THEN e
    ELSE LET r == L_(x, y, z, f, korrektur, e.fm)
         IN  [out |-> Append(e.out, r.line), fm |-> r.fm]

(* an _append_unique that writes over the last line instead of appending *)
append_unique_overwrites(o, line) ==
    IF o = <<>> THEN <<line>> ELSE [o EXCEPT ![Len(o)] = line]

(* _append_unique *)
append_unique(o, line) ==
    IF o = <<>> \/ o[Len(o)] # line THEN Append(o, line) ELSE o

----------------------------------------------------------------------------
(* Path commands: Name and the Parameters dict (an absent key is None) *)

NoParams == [X |-> None, Y |-> None, Z |-> None, F |-> None, I |-> None,
             J |-> None, R |-> None, P |-> None, DR |-> None]

Cmd(name, p) == [Name |-> name, p |-> p]

G(name, x, y, z, f) ==
    Cmd(name, [NoParams EXCEPT !.X = x, !.Y = y, !.Z = z, !.F = f])

Arc(name, x, y, i, j) ==
    Cmd(name, [NoParams EXCEPT !.X = x, !.Y = y, !.I = i, !.J = j])

Drill(name, x, y, z, r, f) ==
    Cmd(name, [NoParams EXCEPT !.X = x, !.Y = y, !.Z = z, !.R = r, !.F = f])

IsRapid(name) == name \in {"G0", "G00"}
IsFeed(name) == name \in {"G1", "G01"}
IsLinear(name) == IsRapid(name) \/ IsFeed(name)
IsArc(name) == name \in {"G2", "G02", "G3", "G03"}

(* the State dataclass; X, Y, Z are the keys ops_drill adds to its __dict__ *)
NewState == [tool_active |-> None, x |-> None, y |-> None, z |-> None,
             X |-> None, Y |-> None, Z |-> None]

(* state.x / state.y / state.z assignments guarded by "is not None" *)
SetXYZ(st, x, y, z) ==
    [st EXCEPT !.x = IF x # None THEN x ELSE @,
               !.y = IF y # None THEN y ELSE @,
               !.z = IF z # None THEN z ELSE @]

(* _CC *)
CC_(cx, cy) == Line("CC", <<fmt_coord("X", cx), fmt_coord("Y", cy)>>)

(* _C *)
C_(x, y, cw, korrektur) ==
    Line("C", <<fmt_coord("X", x), fmt_coord("Y", y),
                Word(IF cw THEN "DR-" ELSE "DR+")>>
              \o (IF korrektur # "" THEN <<Word(korrektur)>> ELSE <<>>))

(* bool(p.get("DR", True)) *)
Truthy(v) ==
    CASE v.t = "none" -> FALSE
      [] v.t = "num"  -> v.n # 0
      [] v.t = "str"  -> v.s # ""
      [] OTHER        -> v.n = 1

----------------------------------------------------------------------------
(* ops_3d.emit_3d: one command of the loop, on e = [out, fm, st] *)

emit_3d_cmd(e, cmd) ==
    LET p == cmd.p
        n == cmd.Name
    IN  IF IsLinear(n)
        THEN LET a == append_changed([out |-> e.out, fm |-> e.fm], p.X, p.Y, p.Z,
                                     IF IsRapid(n) THEN FMAX ELSE p.F, "", e.st)
             IN  [out |-> a.out, fm |-> a.fm, st |-> SetXYZ(e.st, p.X, p.Y, p.Z)]
        ELSE IF n = "CC"
        THEN [e EXCEPT !.out = Append(e.out, CC_(p.X, p.Y))]
        ELSE IF n = "C"
        THEN [e EXCEPT !.out = Append(e.out,
                  C_(p.X, p.Y, IF p.DR = None THEN TRUE ELSE Truthy(p.DR), ""))]
        ELSE e

----------------------------------------------------------------------------
(* ops_contour.emit_contour_simple *)

(* The op argument is the chain op, op.Base, op.Base.Base ... of attribute
   records; <<>> is op = None. *)
NoAttrs == [UseComp |-> None, Side |-> None, Direction |-> None,
            Diameter |-> None]

ChainDepth == 16

(* _get_op_attr: the first non-None value along the Base chain *)
RECURSIVE get_op_attr_from(_, _, _)
get_op_attr_from(chain, name, k) ==
    IF k > Len(chain) \/ k > ChainDepth THEN None
    ELSE IF chain[k][name] # None THEN chain[k][name]
    ELSE get_op_attr_from(chain, name, k + 1)

get_op_attr(chain, name) == get_op_attr_from(chain, name, 1)

(* str(value).strip().lower() on the spellings of the inputs *)
StripLower(x) ==
    CASE x = "Left"   -> "left"
      [] x = " RR "   -> "rr"
      [] x = "Inside" -> "inside"
      [] x = "OUT"    -> "out"
      [] x = "CW"     -> "cw"
      [] x = " CCW"   -> "ccw"
      [] x = "True"   -> "true"
      [] x = "False"  -> "false"
      [] x = "ON"     -> "on"
      [] OTHER        -> x

(* _normalize_token: None, or the lower-case text *)
normalize_token(value) ==
    CASE value.t = "none" -> None
      [] value.t = "str"  -> Str(StripLower(value.s))
      [] value.t = "bool" -> Str(IF value.n = 1 THEN "true" ELSE "false")
      [] OTHER            -> Str("<number>")

(* _normalize_bool *)
normalize_bool(value) ==
    IF value.t = "bool" THEN value.n = 1
    ELSE normalize_token(value) \in {Str("1"), Str("true"), Str("yes"),
                                      Str("y"), Str("on")}

(* lines 125-140: the radius mode from UseComp, Side, Direction *)
radius_mode_of(use_comp, side, direction) ==
    LET use_comp_bool   == normalize_bool(use_comp)
        side_token      == normalize_token(side)
        direction_token == normalize_token(direction)
        cw  == direction_token \in {Str("cw"), Str("clockwise")}
        ccw == direction_token \in {Str("ccw"), Str("counterclockwise"),
                                    Str("anti-clockwise"), Str("anticlockwise")}
    IN  IF ~use_comp_bool
        THEN IF side_token \in {Str("left"), Str("l"), Str("g41"), Str("rl")}
             THEN "RL"
             ELSE IF side_token \in {Str("right"), Str("r"), Str("g42"), Str("rr")}
             THEN "RR"
             ELSE IF side_token \in {Str("inside"), Str("inner"), Str("in")}
             THEN (IF cw THEN "RR" ELSE IF ccw THEN "RL" ELSE "R0")
             ELSE IF side_token \in {Str("outside"), Str("outer"), Str("out")}
             THEN (IF cw THEN "RL" ELSE IF ccw THEN "RR" ELSE "R0")
             ELSE "R0"
        ELSE "R0"

HasXY(cmd) == cmd.p.X # None \/ cmd.p.Y # None

(* plunge_index: the first rapid/linear command with Z < 0 (0: none), 1-based *)
RECURSIVE plunge_from(_, _)
plunge_from(cs, k) ==
    IF k > Len(cs) THEN 0
    ELSE IF IsLinear(cs[k].Name) /\ IsNum(cs[k].p.Z) /\ cs[k].p.Z.n < 0 THEN k
    ELSE plunge_from(cs, k + 1)

plunge_index(cs) == plunge_from(cs, 1)

(* entry_index: the first X/Y-bearing rapid/linear command after the plunge *)
RECURSIVE entry_from(_, _)
entry_from(cs, k) ==
    IF k > Len(cs) THEN 0
    ELSE IF IsLinear(cs[k].Name) /\ HasXY(cs[k]) THEN k
    ELSE entry_from(cs, k + 1)

entry_index(cs) ==
    IF plunge_index(cs) = 0 THEN 0 ELSE entry_from(cs, plunge_index(cs) + 1)

(* lead_in: an X/Y-bearing rapid/linear command before the entry *)
lead_in(cs) ==
    /\ entry_index(cs) # 0
    /\ \E k \in 1..(entry_index(cs) - 1) : IsLinear(cs[k].Name) /\ HasXY(cs[k])

(* rnd_radius, in tenths: round(max(1.05 * r, r + 0.5), 1), r = diameter / 2 *)
rnd_radius(chain) ==
    LET d  == get_op_attr(chain, "Diameter")
        dn == IF IsNum(d) THEN d.n ELSE 0
        a  == 105 * dn
        b  == 100 * dn + 100000
    IN  PyRound(IF a > b THEN a ELSE b, 20000)

(* replace_leadin_arc_index (0: None) *)
replace_leadin_arc_index(chain, cs) ==
    LET mode == radius_mode_of(get_op_attr(chain, "UseComp"),
                               get_op_attr(chain, "Side"),
                               get_op_attr(chain, "Direction"))
        ei   == entry_index(cs)
    IN  IF /\ ~normalize_bool(get_op_attr(chain, "UseComp"))
           /\ mode \in {"RL", "RR"}
           /\ lead_in(cs)
           /\ ei > 1
           /\ IsArc(cs[ei - 1].Name)
           /\ HasXY(cs[ei - 1])
        THEN ei - 1 ELSE 0

(* the locals set before the emit loop *)
contour_locals(chain, cs) ==
    [radius_mode |-> radius_mode_of(get_op_attr(chain, "UseComp"),
                                    get_op_attr(chain, "Side"),
                                    get_op_attr(chain, "Direction")),
     entry_index |-> entry_index(cs),
     lead_in     |-> lead_in(cs),
     rnd_radius  |-> rnd_radius(chain),
     replace_leadin_arc_index |-> replace_leadin_arc_index(chain, cs),
     rnd_emitted |-> FALSE,
     leadin_arc_replaced |-> FALSE]

NoLocals == [radius_mode |-> "R0", entry_index |-> 0, lead_in |-> FALSE,
             rnd_radius |-> 0, replace_leadin_arc_index |-> 0,
             rnd_emitted |-> FALSE, leadin_arc_replaced |-> FALSE]

ERROR_LINE == Line("(ERROR: RL/RR requires Lead-In)", <<>>)
ABORT_LINE == Line("(Contour aborted)", <<>>)
RND_(r) == Line("RND", <<[w |-> "R", s |-> "", n |-> r]>>)

(* the precondition checked for RL only *)
contour_aborts_rl_only(c) ==
    c.radius_mode = "RL" /\ (~c.lead_in \/ c.entry_index = 0)

(* lines 203-206: the hard precondition *)
contour_aborts(c) ==
    c.radius_mode \in {"RL", "RR"} /\ (~c.lead_in \/ c.entry_index = 0)

(* an abort that also forgets the position and the feed modal *)
contour_abort_resets(e) ==
    [out |-> e.out \o <<ERROR_LINE, ABORT_LINE>>, fm |-> None, st |-> NewState]

(* lines 204-206: the abort, on e = [out, fm, st]: two lines, then return *)
contour_abort(e) ==
    [e EXCEPT !.out = e.out \o <<ERROR_LINE, ABORT_LINE>>]

(* "Z move first" (lines 241-249, 279-283) on e = [out, fm, st, c] *)
contour_z(e, z, f) ==
    IF z # None /\ (e.st.z = None \/ e.st.z.n # z.n)
    THEN LET a == append_changed([out |-> e.out, fm |-> e.fm],
                                 None, None, z, f, "", e.st)
         IN  [e EXCEPT !.out = a.out, !.fm = a.fm, !.st.z = z]
    ELSE e

(* an XY move that keeps the compensation word on every move from the
   entry on *)
contour_xy_keeps_comp(e, idx, x, y, f) ==
    IF x = None /\ y = None THEN e
    ELSE
    LET c == e.c
        phase_before_entry == c.entry_index # 0 /\ idx < c.entry_index
        active == c.entry_index # 0 /\ idx >= c.entry_index
                  /\ c.radius_mode \in {"RL", "RR"}
        comp == IF phase_before_entry THEN "R0"
                ELSE IF active THEN c.radius_mode ELSE ""
        o1 == IF active /\ ~c.rnd_emitted
              THEN Append(e.out, RND_(c.rnd_radius)) ELSE e.out
        a  == append_changed([out |-> o1, fm |-> e.fm], x, y, None, f, comp, e.st)
    IN  [out |-> a.out, fm |-> a.fm,
         st  |-> SetXYZ(e.st, x, y, None),
         c   |-> [c EXCEPT !.rnd_emitted = @ \/ active]]

(* lines 252-272: the XY move of a rapid/linear command *)
contour_xy(e, idx, x, y, f) ==
    IF x = None /\ y = None THEN e
    ELSE
    LET c == e.c
        phase_before_entry == c.entry_index # 0 /\ idx < c.entry_index
        phase_entry == c.entry_index # 0 /\ idx = c.entry_index
        atEntry == ~phase_before_entry /\ phase_entry
                   /\ c.radius_mode \in {"RL", "RR"} /\ ~c.leadin_arc_replaced
        comp == IF phase_before_entry THEN "R0"
                ELSE IF atEntry THEN c.radius_mode ELSE ""
        o1 == IF atEntry /\ ~c.rnd_emitted
              THEN Append(e.out, RND_(c.rnd_radius)) ELSE e.out
        a  == append_changed([out |-> o1, fm |-> e.fm], x, y, None, f, comp, e.st)
    IN  [out |-> a.out, fm |-> a.fm,
         st  |-> SetXYZ(e.st, x, y, None),
         c   |-> [c EXCEPT !.rnd_emitted = @ \/ atEntry]]

(* lines 285-315: the arc after its optional Z move *)
contour_arc(e, idx, cmd) ==
    LET c == e.c
        p == cmd.p
        cw == cmd.Name \in {"G2", "G02"}
    IN  IF idx = c.replace_leadin_arc_index
        THEN LET o1 == IF ~c.rnd_emitted
                       THEN Append(e.out, RND_(c.rnd_radius)) ELSE e.out
                 a  == append_changed([out |-> o1, fm |-> e.fm], p.X, p.Y, None,
                                      e.feed_xy, c.radius_mode, e.st)
             IN  [e EXCEPT !.out = a.out, !.fm = a.fm,
                           !.st.x = p.X, !.st.y = p.Y,
                           !.c.rnd_emitted = TRUE,
                           !.c.leadin_arc_replaced = TRUE]
        ELSE [e EXCEPT !.out = (IF p.I # None /\ p.J # None
                                THEN Append(e.out, CC_(p.I, p.J)) ELSE e.out)
                               \o <<C_(p.X, p.Y, cw, "")>>,
                       !.st.x = p.X, !.st.y = p.Y]

(* one command of the emit loop (lines 225-321),
   on e = [out, fm, st, c, feed_xy, feed_z] *)
contour_cmd(e, idx, cmd) ==
    LET p == cmd.p
        rapid == IsRapid(cmd.Name)
    IN  IF IsLinear(cmd.Name)
        THEN LET e1 == contour_z(e, p.Z, IF rapid THEN FMAX ELSE e.feed_z)
                 e2 == contour_xy([out |-> e1.out, fm |-> e1.fm, st |-> e1.st,
                                   c |-> e1.c],
                                  idx, p.X, p.Y,
                                  IF rapid THEN FMAX ELSE e.feed_xy)
             IN  [e EXCEPT !.out = e2.out, !.fm = e2.fm, !.st = e2.st, !.c = e2.c]
        ELSE IF IsArc(cmd.Name)
        THEN contour_arc(contour_z(e, p.Z, e.feed_z), idx, cmd)
        ELSE e

----------------------------------------------------------------------------
(* ops_drill: formatters of the cycle definition *)

(* _fmt_number(v, "+.3f"): explicit sign; str(v) when v is no number *)
fmt_number(v) ==
    IF IsNum(v)
    THEN [w |-> "", s |-> IF v.n >= 0 THEN "+" ELSE "-", n |-> Abs(v.n)]
    ELSE [w |-> IF v.t = "none" THEN "None" ELSE v.s, s |-> "", n |-> 0]

(* float(str(v).replace("+", "").replace(",", ".")) on the spellings of the
   inputs: a decimal comma is read, any other text is no number *)
FloatOfText(v) ==
    IF v.t = "str" /\ v.s = "3,5" THEN Num(3500) ELSE None

(* _fmt_negative with the sign of its argument kept *)
fmt_negative_keeps_sign(v) ==
    IF IsNum(v)
    THEN [w |-> "", s |-> IF v.n >= 0 THEN "+" ELSE "-", n |-> Abs(v.n)]
    ELSE [w |-> "", s |-> "-", n |-> 0]

(* _fmt_negative: float(v), else the float of its text; a value >= 0 becomes
   -abs(f), so "{f:+.3f}" always prints a minus sign; "-0.000" when no number *)
fmt_negative(v) ==
    LET f == IF IsNum(v) THEN v ELSE FloatOfText(v)
    IN  IF f = None THEN [w |-> "", s |-> "-", n |-> 0]
        ELSE [w |-> "", s |-> "-", n |-> Abs(f.n)]

(* _fmt_time_seconds_with_comma: decimal comma; "0,000" when no number *)
fmt_time_seconds_with_comma(v) ==
    IF IsNum(v) THEN [w |-> ",", s |-> IF v.n < 0 THEN "-" ELSE "", n |-> Abs(v.n)]
    ELSE [w |-> ",", s |-> "", n |-> 0]

FEED_SCALE == 60

(* _fmt_feed_num_scaled: int(round(float(v) * 60.0)) or None *)
fmt_feed_num_scaled(v) ==
    IF IsNum(v) THEN Num(PyRound(v.n * FEED_SCALE, 1000)) ELSE None

DEFAULT_DEPTH == 0 - 5000
DEFAULT_RPLANE == 2000
DEFAULT_FEED == 80000
DEFAULT_FNUM == 60

(* a grouping key without the depth *)
dg_key_no_depth(kind, depth, rplane, feed, dwell, peck) ==
    <<Str(kind), rplane, feed, dwell, peck>>

(* _dg_key: every numeric field rounded to 6 decimals (exact on 3 decimals) *)
dg_key(kind, depth, rplane, feed, dwell, peck) ==
    <<Str(kind), depth, rplane, feed, dwell, peck>>

NoGroup == [active |-> FALSE, key |-> <<>>, kind |-> "G81",
            depth |-> Num(DEFAULT_DEPTH), r |-> Num(DEFAULT_RPLANE),
            feed |-> Num(DEFAULT_FEED), dwell |-> None, peck |-> None,
            pts |-> <<>>]

(* _emit_cycle_def: the lines of one cycle definition *)
emit_cycle_def(g) ==
    LET dwell == IF g.dwell = None \/ g.dwell = Num(0) THEN Num(0) ELSE g.dwell
        tiefe == fmt_number(g.depth)
        fnum  == IF fmt_feed_num_scaled(g.feed) = None THEN DEFAULT_FNUM
                 ELSE fmt_feed_num_scaled(g.feed).n
    IN  << Line("CYCL DEF 1.0 TIEFBOHREN", <<>>),
           Line("CYCL DEF 1.1 ABST", <<fmt_negative(g.r)>>),
           Line("CYCL DEF 1.2 TIEFE", <<tiefe>>),
           Line("CYCL DEF 1.3 ZUSTLG",
                <<IF g.peck # None THEN fmt_negative(g.peck) ELSE tiefe>>),
           Line("CYCL DEF 1.4 VZEIT",
                <<IF g.kind = "G82" THEN fmt_time_seconds_with_comma(dwell)
                  ELSE fmt_time_seconds_with_comma(Num(0))>>),
           Line("CYCL DEF 1.5 F", <<[w |-> "", s |-> "", n |-> fnum]>>) >>

CYCL_CALL == Line("CYCL CALL", <<>>)

(* the loop of _flush_drill_group over pts *)
RECURSIVE flush_points(_, _, _)
flush_points(o, pts, fm) ==
    IF pts = <<>> THEN o
    ELSE flush_points(
            Append(append_unique(o, L_(pts[1][1], pts[1][2], None, FMAX, "", fm).line),
                   CYCL_CALL),
            Tail(pts), fm)

(* _flush_drill_group on e = [out, fm, st, dg] *)
flush_drill_group(e) ==
    IF ~e.dg.active THEN e
    ELSE IF e.dg.pts = <<>> THEN [e EXCEPT !.dg.active = FALSE]
    ELSE [e EXCEPT !.out = flush_points(e.out \o emit_cycle_def(e.dg), e.dg.pts, e.fm),
                   !.dg.active = FALSE,
                   !.dg.pts = <<>>]

WARN_(name) == Line("; WARN: UNSUPPORTED", <<Word(name)>>)

IsDrillStart(name) == name \in {"G81", "G82", "G83"}
IsNoise(name) == name \in {"(DRILLING)", "(BEGIN DRILLING)", "G90", "G98"}

(* "update modals" (lines 179-185) *)
SetModals(st, X, Y, Z) ==
    [st EXCEPT !.X = IF X # None THEN X ELSE @,
               !.Y = IF Y # None THEN Y ELSE @,
               !.Z = IF Z # None THEN Z ELSE @]

(* a drill-cycle-start command (lines 148-173) *)
drill_start(e, cmd, peck, X, Y) ==
    LET p      == cmd.p
        depth  == IF p.Z # None THEN p.Z ELSE Num(DEFAULT_DEPTH)
        rplane == IF p.R # None THEN p.R ELSE Num(DEFAULT_RPLANE)
        feed   == IF p.F # None THEN p.F ELSE Num(DEFAULT_FEED)
        dwell  == IF cmd.Name = "G82" /\ p.P # None THEN p.P ELSE Num(0)
        key    == dg_key(cmd.Name, depth, rplane, feed, dwell, peck)
        e1     == IF ~e.dg.active \/ e.dg.key # key
                  THEN LET f == flush_drill_group(
                                    IF peck # None THEN [e EXCEPT !.dg.peck = peck]
                                    ELSE e)
                       IN  [f EXCEPT !.dg =
                               [active |-> TRUE, key |-> key, kind |-> cmd.Name,
                                depth |-> depth, r |-> rplane, feed |-> feed,
                                dwell |-> IF dwell = Num(0) THEN None ELSE dwell,
                                peck |-> peck, pts |-> <<>>]]
                  ELSE e
    IN  [e1 EXCEPT !.dg.pts = Append(@, <<X, Y>>)]

(* one command of _emit_literal_with_drill_grouping's loop (lines 123-185) *)
drill_cmd(e, cmd, peck) ==
    LET name == cmd.Name
        p == cmd.p
        X == IF p.X # None THEN p.X ELSE e.st.X
        Y == IF p.Y # None THEN p.Y ELSE e.st.Y
        Z == IF p.Z # None THEN p.Z ELSE e.st.Z
        body ==
            IF IsRapid(name)
            THEN [e EXCEPT !.out = append_unique(e.out,
                                       L_(X, Y, Z, FMAX, "", e.fm).line)]
            ELSE IF IsFeed(name)
            THEN [e EXCEPT !.out = Append(e.out, L_(X, Y, Z, p.F, "", e.fm).line),
                           !.fm  = L_(X, Y, Z, p.F, "", e.fm).fm]
            ELSE IF IsDrillStart(name)
            THEN drill_start(e, cmd, peck, X, Y)
            ELSE [e EXCEPT !.out = Append(e.out, WARN_(name))]
    IN  IF IsNoise(name) THEN e
        ELSE IF name = "G80"
        THEN flush_drill_group(IF peck # None THEN [e EXCEPT !.dg.peck = peck] ELSE e)
        ELSE [body EXCEPT !.st = SetModals(body.st, X, Y, Z)]

(* the end of the stream without the final flush *)
drill_end_no_flush(e, peck) == e

(* the flush at the end of the stream (lines 187-189) *)
drill_end(e, peck) ==
    flush_drill_group(IF peck # None THEN [e EXCEPT !.dg.peck = peck] ELSE e)

----------------------------------------------------------------------------
(* Emitter calls.  opi = 0 is a direct call of the emitter; otherwise export
   called it for job.ops[opi] and goes on with the next operation. *)

Return ==
    /\ pc' = IF opi = 0 THEN "done" ELSE "loop"
    /\ opi' = IF opi = 0 THEN 0 ELSE opi + 1

(* emit_3d: one iteration of the loop over pth.Commands *)
Emit3DCmd ==
    /\ pc = "3d"
    /\ ci <= Len(cmds)
    /\ LET e == emit_3d_cmd([out |-> out, fm |-> FEED_MODAL, st |-> state], cmds[ci])
       IN  /\ out' = e.out
           /\ FEED_MODAL' = e.fm
           /\ state' = e.st
    /\ ci' = ci + 1
    /\ UNCHANGED <<TOOL_INITIALIZED, job, pc, opi, cmds, opArg, feeds, cl, dg, ret>>

Emit3DReturn ==
    /\ pc = "3d"
    /\ ci > Len(cmds)
    /\ Return
    /\ UNCHANGED <<out, state, FEED_MODAL, TOOL_INITIALIZED, job, ci, cmds,
                   opArg, feeds, cl, dg, ret>>

(* emit_contour_simple up to the emit loop: derivation, scan, precondition *)
ContourBegin ==
    /\ pc = "contour_begin"
    /\ cl' = contour_locals(opArg, cmds)
    /\ IF contour_aborts(cl')
       THEN /\ LET e == contour_abort([out |-> out, fm |-> FEED_MODAL, st |-> state])
               IN  /\ out' = e.out
                   /\ FEED_MODAL' = e.fm
                   /\ state' = e.st
            /\ Return
       ELSE /\ UNCHANGED <<out, FEED_MODAL, state>>
            /\ pc' = "contour"
            /\ opi' = opi
    /\ ci' = 1
    /\ UNCHANGED <<TOOL_INITIALIZED, job, cmds, opArg, feeds, dg, ret>>

(* emit_contour_simple: one iteration of the emit loop *)
ContourCmd ==
    /\ pc = "contour"
    /\ ci <= Len(cmds)
    /\ LET e == contour_cmd([out |-> out, fm |-> FEED_MODAL, st |-> state, c |-> cl,
                             feed_xy |-> feeds.xy, feed_z |-> feeds.z],
                            ci, cmds[ci])
       IN  /\ out' = e.out
           /\ FEED_MODAL' = e.fm
           /\ state' = e.st
           /\ cl' = e.c
    /\ ci' = ci + 1
    /\ UNCHANGED <<TOOL_INITIALIZED, job, pc, opi, cmds, opArg, feeds, dg, ret>>

ContourReturn ==
    /\ pc = "contour"
    /\ ci > Len(cmds)
    /\ Return
    /\ UNCHANGED <<out, state, FEED_MODAL, TOOL_INITIALIZED, job, ci, cmds,
                   opArg, feeds, cl, dg, ret>>

(* emit_drilling calls _emit_literal_with_drill_grouping with peck = None *)
PECK == None

(* _emit_literal_with_drill_grouping: one iteration of the loop *)
DrillCmd ==
    /\ pc = "drill"
    /\ ci <= Len(cmds)
    /\ LET e == drill_cmd([out |-> out, fm |-> FEED_MODAL, st |-> state, dg |-> dg],
                          cmds[ci], PECK)
       IN  /\ out' = e.out
           /\ FEED_MODAL' = e.fm
           /\ state' = e.st
           /\ dg' = e.dg
    /\ ci' = ci + 1
    /\ UNCHANGED <<TOOL_INITIALIZED, job, pc, opi, cmds, opArg, feeds, cl, ret>>

(* _emit_literal_with_drill_grouping: the end of the stream *)
DrillEnd ==
    /\ pc = "drill"
    /\ ci > Len(cmds)
    /\ LET e == drill_end([out |-> out, fm |-> FEED_MODAL, st |-> state, dg |-> dg],
                          PECK)
       IN  /\ out' = e.out
           /\ dg' = e.dg
    /\ Return
    /\ UNCHANGED <<state, FEED_MODAL, TOOL_INITIALIZED, job, ci, cmds, opArg,
                   feeds, cl, ret>>

----------------------------------------------------------------------------
(* tnc355_post.export *)

LONG_PATH == 500

DRILL_CMDS == {"G81", "G82", "G83", "G73"}

(* router.classify(pth) *)
classify(cs) ==
    IF \E k \in 1..Len(cs) : cs[k].Name \in DRILL_CMDS THEN "drill"
    ELSE IF Len(cs) > LONG_PATH THEN "3d"
    ELSE "contour"

(* ToolDB.get: the ToolInfo of a tool number, or NoTool *)
NoTool == [found |-> FALSE, rpm |-> None, feed_xy_mmmin |-> None,
           feed_z_mmmin |-> None]

db_get(db, tnum) ==
    IF tnum # None /\ tnum.n \in DOMAIN db
    THEN [found |-> TRUE, rpm |-> db[tnum.n].rpm,
          feed_xy_mmmin |-> db[tnum.n].feed_xy_mmmin,
          feed_z_mmmin |-> db[tnum.n].feed_z_mmmin]
    ELSE NoTool

(* safe_z: only once a tool has been initialized *)
safe_z(o, z, initialized) ==
    IF ~initialized THEN o
    ELSE Append(o, Line("L", <<[w |-> "Z", s |-> "+", n |-> z], Word("FMAX")>>))

MCode(m) == Line("L", <<[w |-> "M", s |-> "", n |-> m]>>)

(* tool_call: TOOL CALL <n> Z [S<rpm>] *)
tool_call(o, tnum, rpm) ==
    Append(o, Line("TOOL CALL",
                   <<[w |-> "T", s |-> "", n |-> tnum.n], Word("Z")>>
                   \o (IF Truthy(rpm) THEN <<[w |-> "S", s |-> "", n |-> rpm.n]>>
                       ELSE <<>>)))

(* lines 94-113: the tool call block *)
tool_block(o, new_tool, db, initialized) ==
    LET rpm == IF db_get(db, new_tool).found THEN db_get(db, new_tool).rpm ELSE Num(0)
        o1  == safe_z(o, TOOLCHANGE_Z, initialized) \o <<MCode(5), MCode(9), MCode(6)>>
    IN  tool_call(o1, new_tool, rpm) \o <<MCode(3), MCode(8)>>

BEGIN_PGM == Line("BEGIN PGM PROGRAM MM", <<>>)
END_PGM == Line("END PGM PROGRAM MM", <<>>)

(* the returned text: every line numbered from 0, a blank line first *)
program_text(o) ==
    [k \in 1..(Len(o) + 1) |->
        [i |-> k - 1, l |-> IF k = 1 THEN Line("", <<>>) ELSE o[k - 1]]]

MaxRuns == 2

(* a check of the tool table that never raises *)
check_toolnumbers_unique_never(db) == FALSE

(* check_toolnumbers_unique: TRUE when it raises RuntimeError (empty table) *)
check_toolnumbers_unique(db) == DOMAIN db = {}

(* export up to the operation loop (lines 69-83) *)
ExportBegin ==
    /\ pc = "idle"
    /\ Len(ret) < MaxRuns
    /\ FEED_MODAL' = None
    /\ state' = NewState
    /\ IF check_toolnumbers_unique(job.tools)
       THEN /\ ret' = Append(ret, [raised |-> TRUE, text |-> <<>>])
            /\ UNCHANGED <<out, pc, opi>>
       ELSE /\ out' = <<BEGIN_PGM>>
            /\ pc' = "loop"
            /\ opi' = 1
            /\ ret' = ret
    /\ UNCHANGED <<TOOL_INITIALIZED, job, ci, cmds, opArg, feeds, cl, dg>>

(* one operation of the loop, up to the call of its emitter (lines 85-126) *)
ExportOp ==
    /\ pc = "loop"
    /\ opi <= Len(job.ops)
    /\ LET obj == job.ops[opi]
           new_tool == obj.tool
           change == new_tool # None /\ new_tool # state.tool_active
           active == IF change THEN new_tool ELSE state.tool_active
           tool == db_get(job.tools, active)
       IN  IF ~obj.Active \/ ~obj.HasPath
           THEN /\ opi' = opi + 1
                /\ UNCHANGED <<out, state, TOOL_INITIALIZED, pc, ci, cmds, opArg,
                               feeds, cl, dg>>
           ELSE /\ out' = IF change
                          THEN tool_block(out, new_tool, job.tools, TOOL_INITIALIZED)
                          ELSE out
                /\ TOOL_INITIALIZED' = (TOOL_INITIALIZED \/ change)
                /\ state' = [state EXCEPT !.tool_active = active]
                /\ cmds' = obj.Commands
                /\ opArg' = <<>>
                /\ feeds' = [xy |-> tool.feed_xy_mmmin, z |-> tool.feed_z_mmmin]
                /\ ci' = 1
                /\ cl' = NoLocals
                /\ dg' = NoGroup
                /\ pc' = (CASE classify(obj.Commands) = "drill" -> "drill"
                            [] classify(obj.Commands) = "3d" -> "3d"
                            [] OTHER -> "contour_begin")
                /\ opi' = opi
    /\ UNCHANGED <<FEED_MODAL, job, ret>>

(* the end of export (lines 128-129) *)
ExportEnd ==
    /\ pc = "loop"
    /\ opi > Len(job.ops)
    /\ out' = Append(out, END_PGM)
    /\ ret' = Append(ret, [raised |-> FALSE, text |-> program_text(out')])
    /\ pc' = "idle"
    /\ UNCHANGED <<state, FEED_MODAL, TOOL_INITIALIZED, job, opi, ci, cmds, opArg,
                   feeds, cl, dg>>

----------------------------------------------------------------------------
(* Inputs *)

mm(v) == Num(v * 1000)

(* every list over S of at most n elements *)
ListsUpTo(S, n) == UNION {[1..k -> S] : k \in 0..n}

Max3DCmds == 3
MaxContourCmds == 3
MaxDrillCmds == 4
MaxOps == 2

KnownState == [NewState EXCEPT !.x = mm(10), !.y = mm(10), !.z = mm(5)]

RapidLine == Line("L", <<fmt_coord("X", mm(10)), fmt_coord("Y", mm(10)),
                         [w |-> "F", s |-> "", n |-> RAPID_FEED]>>)

(* feeds 500, 499.5 (rounds to 500), 300 and 9999.4 (rounds to the rapid feed) *)
Cmds3D ==
    { G("G0", mm(10), mm(10), mm(5), None),
      G("G0", mm(20), None, None, None),
      G("G1", mm(10), None, None, mm(500)),
      G("G1", mm(20), None, None, Num(499500)),
      G("G1", mm(10), None, None, mm(300)),
      G("G1", None, mm(20), None, Num(9999400)),
      G("CC", mm(0), mm(0), None, None),
      G("C", mm(10), mm(0), None, None) }

ContourCmds ==
    { G("G0", mm(10), mm(10), mm(5), None),
      G("G1", None, None, mm(-1), None),
      G("G1", mm(10), mm(10), None, None),
      G("G1", mm(20), mm(10), None, None),
      G("G1", mm(10), mm(10), mm(-1), None),
      Arc("G2", mm(20), mm(20), mm(0), mm(10)),
      Arc("G3", mm(10), None, None, None),
      Cmd("G4", NoParams) }

DrillCmds ==
    { Drill("G81", mm(10), mm(10), mm(-5), mm(2), mm(80)),
      Drill("G81", mm(20), mm(10), mm(-5), mm(2), mm(80)),
      Drill("G81", None, mm(20), mm(-5), mm(2), mm(80)),
      Drill("G81", mm(10), mm(10), mm(-8), mm(2), mm(80)),
      G("G0", mm(0), None, None, None),
      G("G1", mm(20), None, None, mm(100)),
      Cmd("G80", NoParams),
      Cmd("G73", NoParams) }

(* op chains of the contour calls checked with every command list *)
Attrs(use_comp, side, direction, diameter) ==
    [UseComp |-> use_comp, Side |-> side, Direction |-> direction,
     Diameter |-> diameter]

CoreOps ==
    { <<>>,
      <<Attrs(None, Str("Left"), None, mm(6))>>,
      <<NoAttrs, Attrs(Bool(FALSE), Str(" RR "), None, None)>>,
      <<Attrs(Bool(TRUE), Str("left"), None, mm(6))>> }

UseCompValues == {None, Bool(TRUE), Bool(FALSE), Str("ON"), Str("off"), Str("maybe")}
SideValues == {None, Str("Left"), Str("right"), Str("Inside"), Str("OUT"),
               Str("outside"), Str("both")}
DirectionValues == {None, Str("CW"), Str(" CCW"), Str("clockwise"), Str("up")}

AllOps == { <<Attrs(u, sd, d, None)>> :
              u \in UseCompValues, sd \in SideValues, d \in DirectionValues }

ToolTables ==
    { <<>>,
      [t \in {1} |-> [rpm |-> Num(12000), feed_xy_mmmin |-> mm(500),
                      feed_z_mmmin |-> mm(300)]],
      [t \in {1, 2} |-> IF t = 1
                        THEN [rpm |-> Num(12000), feed_xy_mmmin |-> mm(500),
                              feed_z_mmmin |-> mm(300)]
                        ELSE [rpm |-> None, feed_xy_mmmin |-> None,
                              feed_z_mmmin |-> None]] }

Op(active, tool, hasPath, commands) ==
    [Active |-> active, tool |-> tool, HasPath |-> hasPath, Commands |-> commands]

ExportOps ==
    { Op(TRUE, Num(1), TRUE, <<G("G0", mm(10), mm(10), mm(5), None)>>),
      Op(TRUE, Num(2), TRUE, <<G("G0", mm(10), mm(10), mm(5), None),
                               G("G1", None, None, mm(-1), None)>>),
      Op(TRUE, None, TRUE, <<G("G1", mm(20), mm(10), None, None)>>),
      Op(TRUE, Num(1), TRUE, <<Drill("G81", mm(10), mm(10), mm(-5), mm(2), mm(80)),
                               Cmd("G80", NoParams),
                               G("G0", mm(10), mm(10), mm(5), None)>>),
      Op(FALSE, Num(2), TRUE, <<G("G0", mm(10), mm(10), mm(5), None)>>),
      Op(TRUE, Num(1), FALSE, <<>>) }

NoJob == [tools |-> <<>>, ops |-> <<>>]
NoFeeds == [xy |-> None, z |-> None]

----------------------------------------------------------------------------
(* Specifications *)

(* export, called up to MaxRuns times in one process *)
Init ==
    /\ job \in [tools : ToolTables, ops : ListsUpTo(ExportOps, MaxOps)]
    /\ out = <<>>
    /\ state = NewState
    /\ FEED_MODAL = None
    /\ TOOL_INITIALIZED = FALSE
    /\ pc = "idle"
    /\ opi = 0
    /\ ci = 1
    /\ cmds = <<>>
    /\ opArg = <<>>
    /\ feeds = NoFeeds
    /\ cl = NoLocals
    /\ dg = NoGroup
    /\ ret = <<>>

Next ==
    \/ ExportBegin
    \/ ExportOp
    \/ ExportEnd
    \/ ContourBegin
    \/ ContourCmd
    \/ ContourReturn
    \/ DrillCmd
    \/ DrillEnd

Spec == Init /\ [][Next]_vars

(* the part of a direct emitter call that no emitter reads *)
DirectCall ==
    /\ job = NoJob
    /\ TOOL_INITIALIZED = FALSE
    /\ opi = 0
    /\ ci = 1
    /\ cl = NoLocals
    /\ dg = NoGroup
    /\ ret = <<>>

(* emit_3d called on a command list *)
Init3D ==
    /\ DirectCall
    /\ pc = "3d"
    /\ cmds \in ListsUpTo(Cmds3D, Max3DCmds)
    /\ \/ state = NewState /\ out \in {<<>>, <<RapidLine>>}
       \/ state = KnownState /\ out = <<>>
    /\ FEED_MODAL = None
    /\ opArg = <<>>
    /\ feeds = NoFeeds

Next3D == Emit3DCmd \/ Emit3DReturn

Spec3D == Init3D /\ [][Next3D]_vars

(* emit_contour_simple called on a command list with an op *)
InitContour ==
    /\ DirectCall
    /\ pc = "contour_begin"
    /\ \/ cmds \in ListsUpTo(ContourCmds, MaxContourCmds) /\ opArg \in CoreOps
       \/ cmds \in ListsUpTo(ContourCmds, 1) /\ opArg \in AllOps
    /\ state \in {NewState, KnownState}
    /\ out = <<>>
    /\ FEED_MODAL \in {None, Num(300)}
    /\ feeds = [xy |-> mm(500), z |-> mm(300)]

NextContour == ContourBegin \/ ContourCmd \/ ContourReturn

SpecContour == InitContour /\ [][NextContour]_vars

(* _emit_literal_with_drill_grouping called on a command stream *)
InitDrill ==
    /\ DirectCall
    /\ pc = "drill"
    /\ cmds \in ListsUpTo(DrillCmds, MaxDrillCmds)
    /\ state = NewState
    /\ out = <<>>
    /\ FEED_MODAL = None
    /\ opArg = <<>>
    /\ feeds = NoFeeds

NextDrill == DrillCmd \/ DrillEnd

SpecDrill == InitDrill /\ [][NextDrill]_vars

(* arguments of the formatters: numbers of both signs, zero, values that
   round (0.5, 2.5) and values float() does not accept *)
MaxFmtCalls == 2

FmtValues ==
    { mm(3), mm(-3), Num(0), Num(2500), Num(-2500), Num(500), Num(1), Num(-1),
      None, Str("abc"), Str("3,5"), Str("") }

(* every formatter of emit_tnc called on the argument cmds[ci]; ret collects
   the argument with the values returned *)
FormatCall ==
    /\ pc = "fmt"
    /\ ci <= Len(cmds)
    /\ ret' = Append(ret,
                [v               |-> cmds[ci],
                 coord           |-> fmt_coord("X", cmds[ci]),
                 feed_num        |-> fmt_feed_num(cmds[ci]),
                 negative        |-> fmt_negative(cmds[ci]),
                 time            |-> fmt_time_seconds_with_comma(cmds[ci]),
                 feed_num_scaled |-> fmt_feed_num_scaled(cmds[ci])])
    /\ ci' = ci + 1
    /\ UNCHANGED <<out, state, FEED_MODAL, TOOL_INITIALIZED, job, pc, opi, cmds,
                   opArg, feeds, cl, dg>>

InitFmt ==
    /\ DirectCall
    /\ pc = "fmt"
    /\ cmds \in ListsUpTo(FmtValues, MaxFmtCalls)
    /\ state = NewState
    /\ out = <<>>
    /\ FEED_MODAL = None
    /\ opArg = <<>>
    /\ feeds = NoFeeds

NextFmt == FormatCall

SpecFmt == InitFmt /\ [][NextFmt]_vars

----------------------------------------------------------------------------
(* Properties *)

HasWord(line, w, n) == \E k \in 1..Len(line.ws) : line.ws[k].w = w /\ line.ws[k].n = n
HasLetter(line, w) == \E k \in 1..Len(line.ws) : line.ws[k].w = w

(* C1: two export runs in one process on the same job return the same text *)
C1_ExportTwiceSame ==
    Len(ret) >= 2 => ret[1] = ret[2]

----------------------------------------------------------------------------
(* C2: a run of k drill starts with one key gives one definition block and k
   (rapid, CYCL CALL) pairs; a following drill start with another key gets a
   block of its own *)

CyclDefHeads ==
    << "CYCL DEF 1.0 TIEFBOHREN", "CYCL DEF 1.1 ABST", "CYCL DEF 1.2 TIEFE",
       "CYCL DEF 1.3 ZUSTLG", "CYCL DEF 1.4 VZEIT", "CYCL DEF 1.5 F" >>

IsCyclDef(line) == \E k \in 1..Len(CyclDefHeads) : line.h = CyclDefHeads[k]

(* the grouping key of the claim: kind, depth, retract plane, feed, dwell *)
ClaimKey(cmd) == <<cmd.Name, cmd.p.Z, cmd.p.R, cmd.p.F, cmd.p.P>>

(* the X or Y a command is at: its own, else the last one given before it *)
RECURSIVE ModalAxis(_, _, _)
ModalAxis(cs, k, a) ==
    IF k = 0 THEN None
    ELSE IF cs[k].p[a] # None THEN cs[k].p[a]
    ELSE ModalAxis(cs, k - 1, a)

(* cs is k >= 1 drill starts with one key, then at most one with another key *)
DrillRun(cs, k) ==
    /\ k >= 1
    /\ Len(cs) \in {k, k + 1}
    /\ \A i \in 1..Len(cs) : IsDrillStart(cs[i].Name)
    /\ \A i \in 1..k : ClaimKey(cs[i]) = ClaimKey(cs[1])
    /\ Len(cs) = k + 1 => ClaimKey(cs[k + 1]) # ClaimKey(cs[1])

(* the word of a known axis value, no word for an unknown one *)
AxisWords(a, v) ==
    IF v = None THEN <<>>
    ELSE <<[w |-> a, s |-> IF v.n >= 0 THEN "+" ELSE "-", n |-> Abs(v.n)]>>

(* o[from ..] is a block of n definition lines, then the pairs of cs[a..b] *)
GroupAt(o, from, n, cs, a, b) ==
    /\ \A j \in 0..(n - 1) : IsCyclDef(o[from + j])
    /\ \A i \in a..b :
          LET r == o[from + n + 2 * (i - a)]
          IN  /\ r.h = "L"
              /\ r.ws = AxisWords("X", ModalAxis(cs, i, "X"))
                        \o AxisWords("Y", ModalAxis(cs, i, "Y"))
                        \o <<[w |-> "F", s |-> "", n |-> RAPID_FEED]>>
              /\ o[from + n + 2 * (i - a) + 1] = CYCL_CALL

DrillGroupingShape(n) ==
    \A k \in 1..Len(cmds) :
       (pc = "done" /\ DrillRun(cmds, k)) =>
          /\ Len(out) = (n + 2 * k) + (IF Len(cmds) > k THEN n + 2 ELSE 0)
          /\ GroupAt(out, 1, n, cmds, 1, k)
          /\ Len(cmds) > k => GroupAt(out, n + 2 * k + 1, n, cmds, k + 1, k + 1)

(* C2 as stated: the definition block has 5 lines *)
C2_DrillGroupingFiveLines == DrillGroupingShape(5)

(* C2 amended: the definition block has the 6 lines CYCL DEF 1.0 .. 1.5 *)
C2_DrillGroupingSixLines == DrillGroupingShape(6)

C2_Witness ==
    /\ pc = "done"
    /\ Len(cmds) = 4
    /\ DrillRun(cmds, 3)
    /\ Cardinality({<<ModalAxis(cmds, i, "X"), ModalAxis(cmds, i, "Y")>> : i \in 1..3}) = 3
    /\ Len(out) = 20

----------------------------------------------------------------------------
(* emit_contour_simple: compensation *)

(* no X/Y-bearing rapid/linear move before the entry, or no entry at all *)
NoLeadIn(cs) ==
    \/ entry_index(cs) = 0
    \/ ~\E k \in 1..(entry_index(cs) - 1) : IsLinear(cs[k].Name) /\ HasXY(cs[k])

(* C3: with radius mode RL or RR and no lead-in the operation appends the
   two error lines and nothing else *)
C3_AbortsWithErrorPair ==
    (pc = "done" /\ cl.radius_mode \in {"RL", "RR"} /\ NoLeadIn(cmds))
        => out = <<ERROR_LINE, ABORT_LINE>>

C3_Witness ==
    /\ pc = "done"
    /\ cl.radius_mode = "RR"
    /\ NoLeadIn(cmds)
    /\ \E k \in 1..Len(cmds) : IsLinear(cmds[k].Name) /\ HasXY(cmds[k])
    /\ out = <<ERROR_LINE, ABORT_LINE>>

RndCount(o) == Cardinality({j \in 1..Len(o) : o[j].h = "RND"})

(* C4: with radius mode RL or RR and a lead-in, the entry-index move appends
   a line that carries the compensation word, and the one RND line of the
   operation comes before that line *)
C4_EntryCarriesComp ==
    [][ (/\ pc = "contour"
         /\ ci' = ci + 1
         /\ ci = cl.entry_index
         /\ cl.radius_mode \in {"RL", "RR"})
        => /\ RndCount(out') = 1
           /\ \E j \in (Len(out) + 1)..Len(out') :
                 /\ out'[j].h = "L"
                 /\ HasLetter(out'[j], cl.radius_mode)
                 /\ \E r \in 1..(j - 1) : out'[r].h = "RND" ]_vars

(* the mapping of the specification: R0 is None, RL is Left, RR is Right *)
ExplicitlyDisabled(use_comp) ==
    \/ use_comp = Bool(FALSE)
    \/ normalize_token(use_comp) \in {Str("0"), Str("false"), Str("no"),
                                       Str("n"), Str("off")}

SpecRadiusMode(use_comp, side, direction) ==
    LET sd  == normalize_token(side)
        d   == normalize_token(direction)
        cw  == d \in {Str("cw"), Str("clockwise")}
        ccw == d \in {Str("ccw"), Str("counterclockwise"),
                      Str("anti-clockwise"), Str("anticlockwise")}
    IN  IF ExplicitlyDisabled(use_comp) THEN "R0"
        ELSE IF sd \in {Str("left"), Str("l"), Str("g41"), Str("rl")} THEN "RL"
        ELSE IF sd \in {Str("right"), Str("r"), Str("g42"), Str("rr")} THEN "RR"
        ELSE IF sd \in {Str("inside"), Str("inner"), Str("in")} /\ cw THEN "RR"
        ELSE IF sd \in {Str("inside"), Str("inner"), Str("in")} /\ ccw THEN "RL"
        ELSE IF sd \in {Str("outside"), Str("outer"), Str("out")} /\ cw THEN "RL"
        ELSE IF sd \in {Str("outside"), Str("outer"), Str("out")} /\ ccw THEN "RR"
        ELSE "R0"

(* C5: the derived radius mode is the one of the mapping, for every
   combination of compensation flag, side and direction *)
C5_RadiusModeMapping ==
    pc # "contour_begin" =>
        cl.radius_mode = SpecRadiusMode(get_op_attr(opArg, "UseComp"),
                                        get_op_attr(opArg, "Side"),
                                        get_op_attr(opArg, "Direction"))

----------------------------------------------------------------------------
(* the line builder and the tracker *)

(* a step of emit_3d or of emit_contour_simple's loop on command cmds[ci] *)
MoveStep == pc \in {"3d", "contour"} /\ ci <= Len(cmds) /\ ci' = ci + 1

(* C6: a line built for a numeric feed carries F<n>, n the rounded feed,
   exactly when n differs from the feed modal, and the modal is n afterwards *)
C6_FeedWordModal ==
    [][ (/\ MoveStep
         /\ pc = "3d"
         /\ IsFeed(cmds[ci].Name)
         /\ IsNum(cmds[ci].p.F)
         /\ Len(out') = Len(out) + 1)
        => LET n    == PyRound(cmds[ci].p.F.n, 1000)
               line == out'[Len(out')]
           IN  /\ HasLetter(line, "F") <=> (FEED_MODAL # Num(n))
               /\ HasLetter(line, "F") => HasWord(line, "F", n)
               /\ FEED_MODAL' = Num(n) ]_vars

(* feeds 500, 499.5 and 300 from an uninitialized modal: F500, no F, F300 *)
C6_Witness ==
    /\ pc = "done"
    /\ Len(cmds) = 3
    /\ \A k \in 1..3 : IsFeed(cmds[k].Name)
    /\ Len(out) = 3
    /\ HasWord(out[1], "F", 500)
    /\ ~HasLetter(out[2], "F")
    /\ HasWord(out[3], "F", 300)
    /\ FEED_MODAL = Num(300)

(* C7: every line appended for a rapid move carries F9999 *)
C7_RapidAlwaysF9999 ==
    [][ (MoveStep /\ pc = "3d" /\ IsRapid(cmds[ci].Name))
        => \A j \in (Len(out) + 1)..Len(out') :
               HasWord(out'[j], "F", RAPID_FEED) ]_vars

(* a rapid line right after a line with F9999, the feed modal being 9999 *)
C7_Witness ==
    /\ pc = "3d"
    /\ ci > 1
    /\ IsRapid(cmds[ci - 1].Name)
    /\ FEED_MODAL = Num(RAPID_FEED)
    /\ Len(out) >= 2
    /\ HasLetter(out[Len(out)], "X")
    /\ HasWord(out[Len(out)], "F", RAPID_FEED)
    /\ HasWord(out[Len(out) - 1], "F", RAPID_FEED)

(* C8: a rapid or linear command that repeats the kind and the X, Y, Z of
   the command right before it appends no line *)
C8_RepeatAppendsNothing ==
    [][ (/\ MoveStep
         /\ ci > 1
         /\ IsLinear(cmds[ci].Name)
         /\ IsLinear(cmds[ci - 1].Name)
         /\ IsRapid(cmds[ci].Name) = IsRapid(cmds[ci - 1].Name)
         /\ cmds[ci].p.X = cmds[ci - 1].p.X
         /\ cmds[ci].p.Y = cmds[ci - 1].p.Y
         /\ cmds[ci].p.Z = cmds[ci - 1].p.Z)
        => out' = out ]_vars

(* the value of axis a on the last line of o that positions it *)
RECURSIVE LastPositioned(_, _)
LastPositioned(o, a) ==
    IF o = <<>> THEN None
    ELSE IF o[Len(o)].h \in {"L", "C"} /\ HasLetter(o[Len(o)], a)
         THEN LastAxis(o[Len(o)].ws, a)
         ELSE LastPositioned(SubSeq(o, 1, Len(o) - 1), a)

(* C9: the tracker holds, for every axis, the coordinate of the last line
   appended that positions the axis *)
C9_TrackerFollowsOutput ==
    pc # "idle" =>
        /\ LastPositioned(out, "X") # None => state.x = LastPositioned(out, "X")
        /\ LastPositioned(out, "Y") # None => state.y = LastPositioned(out, "Y")
        /\ LastPositioned(out, "Z") # None => state.z = LastPositioned(out, "Z")

(* C10: a move that references an axis the tracker does not know appends a
   line positioning that axis, whatever the output holds *)
C10_UnknownAxisAppends ==
    [][ (MoveStep /\ IsLinear(cmds[ci].Name))
        => /\ (cmds[ci].p.X # None /\ state.x = None)
                 => \E j \in (Len(out) + 1)..Len(out') : HasLetter(out'[j], "X")
           /\ (cmds[ci].p.Y # None /\ state.y = None)
                 => \E j \in (Len(out) + 1)..Len(out') : HasLetter(out'[j], "Y")
           /\ (cmds[ci].p.Z # None /\ state.z = None)
                 => \E j \in (Len(out) + 1)..Len(out') : HasLetter(out'[j], "Z") ]_vars

----------------------------------------------------------------------------
(* the drill emitter: one CYCL CALL per drill start *)

StartIdx(cs) == {k \in 1..Len(cs) : IsDrillStart(cs[k].Name)}
CallIdx(o) == {j \in 1..Len(o) : o[j] = CYCL_CALL}

(* the position of x in the set S of integers, counted from 1 *)
Rank(S, x) == Cardinality({y \in S : y <= x})

(* the rapid positioning line of the drill start cs[k] *)
PointLine(cs, k) ==
    Line("L", AxisWords("X", ModalAxis(cs, k, "X"))
              \o AxisWords("Y", ModalAxis(cs, k, "Y"))
              \o <<[w |-> "F", s |-> "", n |-> RAPID_FEED]>>)

(* C11: when the drill emitter has returned no group is pending, and the
   n-th drill start of the stream has the n-th CYCL CALL line of the output,
   right after the rapid line to its point *)
C11_EveryStartOneCall ==
    pc = "done" =>
        /\ ~dg.active
        /\ dg.pts = <<>>
        /\ Cardinality(CallIdx(out)) = Cardinality(StartIdx(cmds))
        /\ \A k \in StartIdx(cmds) : \A j \in CallIdx(out) :
              Rank(StartIdx(cmds), k) = Rank(CallIdx(out), j)
                  => j > 1 /\ out[j - 1] = PointLine(cmds, k)

(* three groups: flushed by a key change, by G80 and by the end of the stream *)
C11_Witness ==
    /\ pc = "done"
    /\ Len(cmds) = 4
    /\ IsDrillStart(cmds[1].Name)
    /\ IsDrillStart(cmds[2].Name)
    /\ ClaimKey(cmds[1]) # ClaimKey(cmds[2])
    /\ cmds[3].Name = "G80"
    /\ IsDrillStart(cmds[4].Name)
    /\ Cardinality(CallIdx(out)) = 3
    /\ Len(out) = 24

----------------------------------------------------------------------------
(* export: tool calls and the safe retract *)

IsSafeRetract(line) ==
    line = Line("L", <<[w |-> "Z", s |-> "+", n |-> TOOLCHANGE_Z], Word("FMAX")>>)

IsToolCall(line) == line.h = "TOOL CALL"

(* C12: in the output of an export run every safe-retract line comes after
   a TOOL CALL line of that run *)
C12_NoRetractBeforeToolCall ==
    \A j \in 1..Len(out) :
        IsSafeRetract(out[j]) => \E i \in 1..(j - 1) : IsToolCall(out[i])

----------------------------------------------------------------------------
(* the formatters *)

(* C13: _fmt_negative of a number is the magnitude with a minus sign and
   three decimals, the same for v and -v *)
C13_NegativeForcedSign ==
    /\ \A k \in 1..Len(ret) :
          IsNum(ret[k].v) =>
              ret[k].negative = [w |-> "", s |-> "-", n |-> Abs(ret[k].v.n)]
    /\ \A k, m \in 1..Len(ret) :
          (IsNum(ret[k].v) /\ IsNum(ret[m].v) /\ ret[k].v.n = 0 - ret[m].v.n)
              => ret[k].negative = ret[m].negative

(* 3.0 and -3.0 both give "-3.000" *)
C13_Witness ==
    /\ Len(ret) = 2
    /\ ret[1].v = mm(3)
    /\ ret[2].v = mm(-3)
    /\ ret[1].negative = [w |-> "", s |-> "-", n |-> 3000]
    /\ ret[2].negative = [w |-> "", s |-> "-", n |-> 3000]

(* C14: every formatter returns None for an argument that is no number *)
C14_NonNumericGivesNone ==
    \A k \in 1..Len(ret) :
        ~IsNum(ret[k].v) =>
            /\ ret[k].coord = NoWord
            /\ ret[k].feed_num = None
            /\ ret[k].negative = NoWord
            /\ ret[k].time = NoWord
            /\ ret[k].feed_num_scaled = None

(* C15: export on a job with an empty tool table raises, returns no text
   and emits nothing *)
C15_EmptyTableRaises ==
    DOMAIN job.tools = {} =>
        /\ pc = "idle"
        /\ out = <<>>
        /\ \A k \in 1..Len(ret) : ret[k] = [raised |-> TRUE, text |-> <<>>]

(* two runs on a job with an active operation and no tool *)
C15_Witness ==
    /\ DOMAIN job.tools = {}
    /\ \E k \in 1..Len(job.ops) : job.ops[k].Active /\ job.ops[k].HasPath
    /\ Len(ret) = 2
    /\ ret[2].raised

(* C16: within one export every step leaves the output list as it is or
   appends to it: the lines it held stay where they are, unchanged *)
C16_OutputAppendOnly ==
    [][ pc # "idle"
        => /\ Len(out') >= Len(out)
           /\ SubSeq(out', 1, Len(out)) = out ]_vars

(* a finished export of a drill operation and a contour operation: lines
   were appended by the tool blocks, the group flush and _append_changed *)
C16_Witness ==
    /\ pc = "idle"
    /\ Len(ret) = 1
    /\ ~ret[1].raised
    /\ Len(job.ops) = 2
    /\ \E j \in 1..Len(out) : out[j] = CYCL_CALL
    /\ \E j \in 1..Len(out) : out[j].h = "L" /\ HasWord(out[j], "Z", 1000)
    /\ out[Len(out)] = END_PGM

----------------------------------------------------------------------------
(* emit_contour_simple: the compensation word along the operation *)

(* C17: a circular-move line appended for a command before the entry index
   carries R0, as a linear move at that index does *)
C17_ArcCarriesComp ==
    [][ (/\ pc = "contour"
         /\ ci' = ci + 1
         /\ IsArc(cmds[ci].Name)
         /\ cl.entry_index # 0
         /\ ci < cl.entry_index)
        => \A j \in (Len(out) + 1)..Len(out') :
               out'[j].h = "C" => HasLetter(out'[j], "R0") ]_vars

----------------------------------------------------------------------------
(* the drill emitter: rapid and linear moves *)

(* a step of the drill emitter's loop on a G0 or G1 command *)
DrillMoveStep ==
    pc = "drill" /\ ci <= Len(cmds) /\ ci' = ci + 1 /\ IsLinear(cmds[ci].Name)

(* C18: a G0 or G1 appends nothing while a drill group is active; with no
   group active it appends at most one line, never one equal to the last
   line of the output *)
C18_MovePassThrough ==
    [][ DrillMoveStep
        => /\ dg.active => out' = out
           /\ ~dg.active =>
                 \/ out' = out
                 \/ /\ Len(out') = Len(out) + 1
                    /\ SubSeq(out', 1, Len(out)) = out
                    /\ out # <<>> => out'[Len(out')] # out[Len(out)] ]_vars

(* the compensation word of a line, "" when it has none *)
CompWord(line) ==
    IF HasLetter(line, "R0") THEN "R0"
    ELSE IF HasLetter(line, "RL") THEN "RL"
    ELSE IF HasLetter(line, "RR") THEN "RR"
    ELSE ""

(* C19: in the output of one contour operation at most one line carries RL
   or RR, and no line after it carries a compensation word (neither R0 nor
   RL/RR) *)
C19_CompForwardOnly ==
    /\ Cardinality({j \in 1..Len(out) : CompWord(out[j]) \in {"RL", "RR"}}) <= 1
    /\ \A i, j \in 1..Len(out) :
          (i < j /\ CompWord(out[i]) \in {"RL", "RR"}) => CompWord(out[j]) = ""

(* a line with R0, then the line with RL/RR, then a positioning line with
   no compensation word *)
C19_Witness ==
    /\ pc = "done"
    /\ \E i, j, k \in 1..Len(out) :
          /\ i < j
          /\ j < k
          /\ CompWord(out[i]) = "R0"
          /\ CompWord(out[j]) \in {"RL", "RR"}
          /\ out[k].h = "L"
          /\ HasLetter(out[k], "X")
          /\ CompWord(out[k]) = ""

(* C20: a call that aborts on the missing lead-in leaves the position, the
   active tool and the feed modal as they were, and returns to its caller,
   which goes on with the operation that follows *)
C20_AbortKeepsState ==
    [][ (/\ pc = "contour_begin"
         /\ cl'.radius_mode \in {"RL", "RR"}
         /\ NoLeadIn(cmds))
        => /\ state' = state
           /\ FEED_MODAL' = FEED_MODAL
           /\ out' = out \o <<ERROR_LINE, ABORT_LINE>>
           /\ pc' = IF opi = 0 THEN "done" ELSE "loop"
           /\ opi' = IF opi = 0 THEN 0 ELSE opi + 1 ]_vars

(* an aborted call made with a known position *)
C20_Witness ==
    /\ pc = "done"
    /\ cl.radius_mode \in {"RL", "RR"}
    /\ NoLeadIn(cmds)
    /\ Len(cmds) >= 2
    /\ out = <<ERROR_LINE, ABORT_LINE>>
    /\ state = KnownState
    /\ FEED_MODAL = Num(300)

----------------------------------------------------------------------------
(* the move emitters: Z first, arcs, feed *)

(* C21: no line appended for a rapid or linear command carries Z together
   with X or Y *)
C21_ZLineThenXYLine ==
    [][ (MoveStep /\ IsLinear(cmds[ci].Name))
        => \A j \in (Len(out) + 1)..Len(out') :
               out'[j].h = "L" =>
                   ~(/\ HasLetter(out'[j], "Z")
                     /\ (HasLetter(out'[j], "X") \/ HasLetter(out'[j], "Y"))) ]_vars

(* the lines a step appended *)
NewLines == SubSeq(out', Len(out) + 1, Len(out'))

(* C22: an arc command appends exactly one circular-move line, with DR- for
   G2 and DR+ for G3 and the destination X, Y; a CC line right before it
   exactly when I and J are given; the tracker is at the destination *)
C22_ArcLines ==
    [][ (MoveStep /\ IsArc(cmds[ci].Name))
        => LET p == cmds[ci].p
               n == Len(NewLines)
           IN  /\ Cardinality({j \in 1..n : NewLines[j].h = "C"}) = 1
               /\ n >= 1
               /\ NewLines[n].h = "C"
               /\ HasLetter(NewLines[n],
                             IF cmds[ci].Name \in {"G2", "G02"} THEN "DR-" ELSE "DR+")
               /\ p.X # None => LastAxis(NewLines[n].ws, "X") = p.X
               /\ p.Y # None => LastAxis(NewLines[n].ws, "Y") = p.Y
               /\ (n >= 2 /\ NewLines[n - 1].h = "CC")
                     <=> (p.I # None /\ p.J # None)
               /\ p.X # None => state'.x = p.X
               /\ p.Y # None => state'.y = p.Y ]_vars

----------------------------------------------------------------------------
(* the drill emitter: modal Z and the order of the output *)

(* the last Z a G0/G1 command among cs[1..k] supplied, None when there is none *)
RECURSIVE MoveZ(_, _)
MoveZ(cs, k) ==
    IF k = 0 THEN None
    ELSE IF IsLinear(cs[k].Name) /\ cs[k].p.Z # None THEN cs[k].p.Z
    ELSE MoveZ(cs, k - 1)

(* C23: the Z word of a positioning line of the drill emitter is the Z a
   G0/G1 command supplied, never the depth of a drill command *)
C23_NoDepthAsModalZ ==
    [][ DrillMoveStep
        => \A j \in (Len(out) + 1)..Len(out') :
               HasLetter(out'[j], "Z") =>
                   /\ MoveZ(cmds, ci) # None
                   /\ LastAxis(out'[j].ws, "Z") = MoveZ(cmds, ci) ]_vars

----------------------------------------------------------------------------
(* the feed modal and the F words of the output *)

(* the number of the word with letter w on a line that has one *)
WordValue(line, w) ==
    line.ws[CHOOSE k \in 1..Len(line.ws) : line.ws[k].w = w].n

(* the number of the F word of the last L line of o that has one, else None *)
RECURSIVE LastFeedWord(_)
LastFeedWord(o) ==
    IF o = <<>> THEN None
    ELSE IF o[Len(o)].h = "L" /\ HasLetter(o[Len(o)], "F")
         THEN Num(WordValue(o[Len(o)], "F"))
         ELSE LastFeedWord(SubSeq(o, 1, Len(o) - 1))

(* C24: after a step that appended an L line with an F word the feed modal
   is the number of that word, F9999 included; and a feed move appended
   while the last F word of the output is F9999 carries its own F word *)
C24_FeedModalIsLastF ==
    [][ (MoveStep /\ Len(out') > Len(out))
        => /\ LastFeedWord(NewLines) # None => FEED_MODAL' = LastFeedWord(NewLines)
           /\ (/\ IsFeed(cmds[ci].Name)
               /\ IsNum(cmds[ci].p.F)
               /\ PyRound(cmds[ci].p.F.n, 1000) # RAPID_FEED
               /\ LastFeedWord(out) = Num(RAPID_FEED))
                 => HasLetter(out'[Len(out')], "F") ]_vars

(* C25: when a G0/G1 of the drill stream appends its line, the CYCL CALL
   line of every drill start before it in the stream is already in the
   output *)
C25_DrillKeepsOrder ==
    [][ (DrillMoveStep /\ Len(out') > Len(out))
        => Cardinality(CallIdx(out))
             = Cardinality({k \in StartIdx(cmds) : k < ci}) ]_vars

----------------------------------------------------------------------------
(* emit_contour_simple: the rounding line and the circle centre *)

(* C26: in the output of a contour operation every RND line is followed at
   once by a linear-move line that carries RL or RR *)
C26_RndThenCompLine ==
    pc = "done" =>
        \A j \in 1..Len(out) :
            out[j].h = "RND" =>
                /\ j < Len(out)
                /\ out[j + 1].h = "L"
                /\ CompWord(out[j + 1]) \in {"RL", "RR"}

(* C27: the CC line of an arc names the absolute centre: the tracker's x, y
   before the arc plus the arc's I, J *)
C27_CentreIsAbsolute ==
    [][ (/\ MoveStep
         /\ IsArc(cmds[ci].Name)
         /\ IsNum(cmds[ci].p.I)
         /\ IsNum(cmds[ci].p.J)
         /\ IsNum(state.x)
         /\ IsNum(state.y))
        => \A j \in (Len(out) + 1)..Len(out') :
               out'[j].h = "CC" =>
                   out'[j] = CC_(Num(state.x.n + cmds[ci].p.I.n),
                                 Num(state.y.n + cmds[ci].p.J.n)) ]_vars

====
